---- MODULE Spec2Model ----
\* The ImageGenerator component (src/App.tsx) and the generateHeadshot adapter
\* (src/services/geminiService.ts) as a state machine: the component's React
\* state, the pending invocations of the async handler handleGenerate, and the
\* requests handed to the external model.
EXTENDS Integers, Sequences, FiniteSets, TLC

\* ---------------------------------------------------------------- bounds
\* Generate actions taken in one run.
MaxAttempts == 2
\* Object URLs created in one run (valid selections).
MaxSelections == 2
\* Content parts in one response of the external model.
MaxParts == 2

\* ---------------------------------------------------------------- values
\* JavaScript null, for the string-valued state (File | null, string | null).
NULL == "null"

\* The files the user can pick or drop.
Files == {"photo.png", "selfie.jpg", "pic.webp", "notes.txt"}

\* File.type
FileType(f) ==
  CASE f = "photo.png" -> "image/png"
    [] f = "selfie.jpg" -> "image/jpeg"
    [] f = "pic.webp" -> "image/webp"
    [] OTHER -> "text/plain"

\* The file's content, as the base64 text FileReader produces for it.
FileBase64(f) ==
  CASE f = "photo.png" -> "iVBORw0KGgo="
    [] f = "selfie.jpg" -> "/9j/4AAQ"
    [] f = "pic.webp" -> "UklGRg=="
    [] OTHER -> "bm90ZXM="

\* What the user can type into the instructions textarea.
Descriptions == {"", "Wear a black suit"}

loadingMessages ==
  << "Warming up the studio lights...",
     "Adjusting the camera lens...",
     "Finding the perfect angle...",
     "Applying professional touch-ups...",
     "Developing the photo in the digital darkroom...",
     "Polishing the final image..." >>

\* Array.prototype.indexOf, 0-based, -1 when absent.
indexOf(arr, x) ==
  IF \E i \in 1..Len(arr) : arr[i] = x
    THEN (CHOOSE i \in 1..Len(arr) : arr[i] = x /\ \A j \in 1..(i - 1) : arr[j] # x) - 1
    ELSE -1

\* The updater of the interval callback: the message after prev.
nextLoadingMessage(prev) ==
  loadingMessages[((indexOf(loadingMessages, prev) + 1) % Len(loadingMessages)) + 1]

\* String.prototype.startsWith
startsWith(s, prefix) ==
  Len(s) >= Len(prefix) /\ SubSeq(s, 1, Len(prefix)) = prefix

\* ------------------------------------------------- the external model's answers
\* Values a rejected call can carry: standard errors and other throwables.
Throwables ==
  { [isError |-> TRUE, message |-> "quota exceeded"],
    [isError |-> TRUE, message |-> ""],
    [isError |-> FALSE, message |-> "aborted"] }

NoThrowable == [isError |-> FALSE, message |-> NULL]

TextPart == [text |-> "Here is your headshot."]
ImagePart(mime, data) == [inlineData |-> [mimeType |-> mime, data |-> data]]

Parts ==
  { TextPart, ImagePart("image/png", "AAAA"), ImagePart("image/jpeg", "BBBB") }

PartLists == UNION { [1..n -> Parts] : n \in 0..MaxParts }

\* A response of ai.models.generateContent: it resolves with candidates whose
\* first entry holds content parts, resolves without candidates, or rejects.
Responses ==
  { [kind |-> "parts", parts |-> ps, thrown |-> NoThrowable] : ps \in PartLists }
  \cup { [kind |-> "nocandidates", parts |-> << >>, thrown |-> NoThrowable] }
  \cup { [kind |-> "throw", parts |-> << >>, thrown |-> t] : t \in Throwables }

NoResponse == [kind |-> "none", parts |-> << >>, thrown |-> NoThrowable]

\* ------------------------------------------------------- fileToBase64
\* FileReader.readAsDataURL's result, as its comma-separated fields.
readAsDataURL(f) == << "data:" \o FileType(f) \o ";base64", FileBase64(f) >>

\* result.split(',')[1]
fileToBase64(f) == readAsDataURL(f)[2]

\* ------------------------------------------------------- generateHeadshot
PromptTemplate == "Transform the provided image into a professional, studio-quality headshot."

fullPrompt(description) ==
  IF description # ""
    THEN PromptTemplate \o "Incorporate these user instructions: \"" \o description \o "\""
    ELSE PromptTemplate

\* The request handed to ai.models.generateContent.
generateContentRequest(base64Image, mimeType, description) ==
  [ data |-> base64Image, mimeType |-> mimeType, prompt |-> fullPrompt(description) ]

\* Outcomes of a block of code: a returned string or a thrown value.
Return(v) == [threw |-> FALSE, value |-> v, thrown |-> NoThrowable]
Throw(t) == [threw |-> TRUE, value |-> NULL, thrown |-> t]
NewError(m) == [isError |-> TRUE, message |-> m]

EmptyResponseMessage == "No image was generated. The response from the API was empty."
FailedPrefix == "Failed to generate headshot: "
UnknownErrorMessage == "An unknown error occurred while generating the headshot."
TypeErrorMessage == "Cannot read properties of undefined (reading '0')"

\* if (part.inlineData)
hasInlineData(part) == "inlineData" \in DOMAIN part

\* firstInlinePart with the loop running to the end: the last image part wins.
lastInlinePart(parts) ==
  IF \E i \in 1..Len(parts) : hasInlineData(parts[i])
    THEN CHOOSE i \in 1..Len(parts) :
           hasInlineData(parts[i]) /\ \A j \in (i + 1)..Len(parts) : ~hasInlineData(parts[j])
    ELSE 0

\* The loop over the parts: the index of the part it returns from, 0 if none.
firstInlinePart(parts) ==
  IF \E i \in 1..Len(parts) : hasInlineData(parts[i])
    THEN CHOOSE i \in 1..Len(parts) :
           hasInlineData(parts[i]) /\ \A j \in 1..(i - 1) : ~hasInlineData(parts[j])
    ELSE 0

dataUri(inlineData) == "data:" \o inlineData.mimeType \o ";base64," \o inlineData.data

\* The try block of generateHeadshot, given how the awaited call ended.
tryBlock(response) ==
  IF response.kind = "throw" THEN Throw(response.thrown)
  ELSE IF response.kind = "nocandidates" THEN Throw(NewError(TypeErrorMessage))
  ELSE LET i == firstInlinePart(response.parts) IN
    IF i # 0 THEN Return(dataUri(response.parts[i].inlineData))
    ELSE Throw(NewError(EmptyResponseMessage))

\* catchBlock without the instanceof test.
catchBlockAlwaysWrapping(thrown) == Throw(NewError(FailedPrefix \o thrown.message))

\* The catch block of generateHeadshot: every thrown value is re-thrown wrapped.
catchBlock(thrown) ==
  IF thrown.isError THEN Throw(NewError(FailedPrefix \o thrown.message))
  ELSE Throw(NewError(UnknownErrorMessage))

generateHeadshot(response) ==
  LET r == tryBlock(response) IN
  IF r.threw THEN catchBlock(r.thrown) ELSE r

\* ---------------------------------------------------------------- state
\* The component's state and refs. isDragging (read only by the drop zone's
\* className) and fileInputRef (the DOM input that clearSourceImage empties)
\* decide no handler's behaviour and are left out. Handlers run to completion
\* and React re-renders before the next event, so each handler, with the
\* effects its re-render runs, is one step.
VARIABLES
  description,         \* useState<string>('')
  sourceImageFile,     \* useState<File | null>(null)
  sourceImagePreview,  \* useState<string | null>(null): the object URL
  generatedImage,      \* useState<string | null>(null)
  isLoading,           \* useState<boolean>(false)
  error,               \* useState<string | null>(null)
  loadingMessage,      \* useState<string>(loadingMessages[0])
  intervalRef,         \* useRef<number | null>(null): 0 stands for null
  timers,              \* interval timers scheduled by window.setInterval
  objectUrls,          \* object URLs created and not yet revoked
  urlsCreated,         \* how many object URLs URL.createObjectURL has handed out
  attempts,            \* the invocations of handleGenerate that passed its guard
  inFlight,            \* the requests ai.models.generateContent has not answered yet
  adapterCalls,        \* how many requests generateHeadshot has sent
  lastEvent,           \* the handler or callback that ran last, with its input
  mounted              \* the component is mounted: FALSE once React has torn it down

vars ==
  << description, sourceImageFile, sourceImagePreview, generatedImage, isLoading,
     error, loadingMessage, intervalRef, timers, objectUrls, urlsCreated,
     attempts, inFlight, adapterCalls, lastEvent, mounted >>

Event(type, file, response) == [type |-> type, file |-> file, response |-> response]

Init ==
  /\ description = ""
  /\ sourceImageFile = NULL
  /\ sourceImagePreview = NULL
  /\ generatedImage = NULL
  /\ isLoading = FALSE
  /\ error = NULL
  /\ loadingMessage = loadingMessages[1]
  /\ intervalRef = 0
  /\ timers = {}
  /\ objectUrls = {}
  /\ urlsCreated = 0
  /\ attempts = << >>
  /\ inFlight = {}
  /\ adapterCalls = 0
  /\ lastEvent = Event("mount", NULL, NoResponse)
  /\ mounted = TRUE

\* ---------------------------------------------------------------- render
\* JavaScript truthiness of a string | null.
Truthy(s) == s # NULL /\ s # ""

\* isLoading ? <LoadingState/> : generatedImage ? result : form
\* FormShown with the form rendered under the loading view as well.
FormShownWhileLoading == mounted /\ ~Truthy(generatedImage)

\* (an unmounted component shows nothing)
LoadingShown == mounted /\ isLoading
ResultShown == mounted /\ ~isLoading /\ Truthy(generatedImage)
FormShown == mounted /\ ~isLoading /\ ~Truthy(generatedImage)

\* sourceImagePreview ? preview with the remove button : drop zone with the file input
RemoveButtonShown == FormShown /\ Truthy(sourceImagePreview)
DropZoneShown == FormShown /\ ~Truthy(sourceImagePreview)

\* GenerateEnabled with the button shown in every view and disabled only for
\* lack of an image.
GenerateEnabledWhileLoading == sourceImageFile # NULL

\* The generate button is part of the form; disabled={isLoading || !sourceImageFile}
GenerateEnabled == FormShown /\ ~(isLoading \/ sourceImageFile = NULL)

\* StartOverShown with the button also offered next to an error message.
StartOverShownOnError == ~isLoading /\ (Truthy(generatedImage) \/ Truthy(error))

\* The Download and Start Over buttons are part of the result view only.
DownloadShown == ResultShown
StartOverShown == ResultShown

\* ---------------------------------------------------------------- effects
\* loadingEffect without any clearInterval: the ref is reset, the timer stays.
loadingEffectNeverClearing(wasLoading, nowLoading, id) ==
  IF wasLoading = nowLoading
    THEN UNCHANGED << intervalRef, timers >>
    ELSE IF nowLoading
      THEN /\ intervalRef' = id
           /\ timers' = timers \cup {id}
      ELSE /\ intervalRef' = 0
           /\ UNCHANGED timers

\* useEffect(..., [isLoading]): on a change of isLoading the previous run's cleanup
\* clears the interval the ref holds, then the body schedules a new interval (id)
\* or clears the one the ref holds and resets the ref.
loadingEffect(wasLoading, nowLoading, id) ==
  IF wasLoading = nowLoading
    THEN UNCHANGED << intervalRef, timers >>
    ELSE LET cleaned == IF intervalRef # 0 THEN timers \ {intervalRef} ELSE timers IN
      IF nowLoading
        THEN /\ intervalRef' = id
             /\ timers' = cleaned \cup {id}
        ELSE /\ intervalRef' = 0
             /\ timers' = IF intervalRef # 0 THEN cleaned \ {intervalRef} ELSE cleaned

\* previewEffect returning no cleanup: nothing is revoked when the preview changes.
previewEffectWithoutCleanup(urls, previous, current) == urls

\* useEffect(..., [sourceImagePreview]): on a change of the preview the previous
\* run's cleanup revokes the previous object URL; urls is the set before cleanup.
previewEffect(urls, previous, current) ==
  IF previous # current /\ Truthy(previous) THEN urls \ {previous} ELSE urls

\* ---------------------------------------------------------------- handlers
InvalidFileMessage == "Please upload a valid image file (PNG, JPG, WEBP)."
NoImageMessage == "Please upload an image to start."
UnexpectedErrorMessage == "An unexpected error occurred."

\* URL.createObjectURL: a URL no earlier call returned.
createObjectURL(n) == "blob:" \o ToString(n)

\* handleFileSelect without the test of the MIME type.
handleFileSelectUnchecked(file) ==
  LET url == createObjectURL(urlsCreated + 1) IN
  /\ urlsCreated < MaxSelections
  /\ sourceImageFile' = file
  /\ sourceImagePreview' = url
  /\ urlsCreated' = urlsCreated + 1
  /\ objectUrls' = (objectUrls \ {sourceImagePreview}) \cup {url}
  /\ error' = NULL

\* handleFileSelect without setError(null).
handleFileSelectKeepingError(file) ==
  IF ~startsWith(FileType(file), "image/")
    THEN /\ error' = InvalidFileMessage
         /\ UNCHANGED << sourceImageFile, sourceImagePreview, objectUrls, urlsCreated >>
    ELSE LET url == createObjectURL(urlsCreated + 1) IN
         /\ urlsCreated < MaxSelections
         /\ sourceImageFile' = file
         /\ sourceImagePreview' = url
         /\ urlsCreated' = urlsCreated + 1
         /\ objectUrls' = (objectUrls \ {sourceImagePreview}) \cup {url}
         /\ UNCHANGED error

\* handleFileSelect(file) for a file (handleFileChange and handleDrop both end in
\* it; a cancelled picker passes null and changes nothing).
handleFileSelect(file) ==
  IF ~startsWith(FileType(file), "image/")
    THEN /\ error' = InvalidFileMessage
         /\ UNCHANGED << sourceImageFile, sourceImagePreview, objectUrls, urlsCreated >>
    ELSE LET url == createObjectURL(urlsCreated + 1)
             revoked == IF Truthy(sourceImagePreview)
                          THEN objectUrls \ {sourceImagePreview} ELSE objectUrls
         IN /\ urlsCreated < MaxSelections
            /\ sourceImageFile' = file
            /\ sourceImagePreview' = url
            /\ urlsCreated' = urlsCreated + 1
            /\ objectUrls' = previewEffect(revoked \cup {url}, sourceImagePreview, url)
            /\ error' = NULL

\* The user picks or drops a file on the drop zone.
SelectFile ==
  \E file \in Files :
    /\ DropZoneShown
    /\ handleFileSelect(file)
    /\ UNCHANGED mounted
    /\ lastEvent' = Event("select", file, NoResponse)
    /\ UNCHANGED << description, generatedImage, isLoading, loadingMessage,
                    intervalRef, timers, attempts, inFlight, adapterCalls >>

\* clearSourceImage without setSourceImagePreview(null).
clearSourceImageFileOnly ==
  /\ sourceImageFile' = NULL
  /\ UNCHANGED << sourceImagePreview, objectUrls, urlsCreated >>

\* clearSourceImage: the state it sets, and the effect cleanup that follows.
clearSourceImage ==
  /\ sourceImageFile' = NULL
  /\ sourceImagePreview' = NULL
  /\ objectUrls' = previewEffect(objectUrls, sourceImagePreview, NULL)
  /\ UNCHANGED urlsCreated

\* ClearImage with the remove button resetting the whole form, as start over does.
ClearImageResettingAll ==
  /\ RemoveButtonShown
  /\ clearSourceImage
  /\ description' = ""
  /\ generatedImage' = NULL
  /\ error' = NULL
  /\ UNCHANGED mounted
  /\ lastEvent' = Event("clear", NULL, NoResponse)
  /\ UNCHANGED << isLoading, loadingMessage, intervalRef, timers, attempts,
                  inFlight, adapterCalls >>

\* The user presses the remove button of the preview.
ClearImage ==
  /\ RemoveButtonShown
  /\ clearSourceImage
  /\ UNCHANGED mounted
  /\ lastEvent' = Event("clear", NULL, NoResponse)
  /\ UNCHANGED << description, generatedImage, isLoading, error, loadingMessage,
                  intervalRef, timers, attempts, inFlight, adapterCalls >>

\* The user edits the instructions: onChange = setDescription(e.target.value)
EditDescription ==
  \E d \in Descriptions :
    /\ FormShown
    /\ d # description
    /\ description' = d
    /\ UNCHANGED mounted
    /\ lastEvent' = Event("edit", NULL, NoResponse)
    /\ UNCHANGED << sourceImageFile, sourceImagePreview, generatedImage, isLoading,
                    error, loadingMessage, intervalRef, timers, objectUrls,
                    urlsCreated, attempts, inFlight, adapterCalls >>

\* handleGenerateNoImage without the early return: the attempt starts anyway.
handleGenerateNoGuard ==
  /\ sourceImageFile = NULL
  /\ Len(attempts) < MaxAttempts
  /\ isLoading' = TRUE
  /\ error' = NULL
  /\ generatedImage' = NULL
  /\ loadingMessage' = loadingMessages[1]
  /\ attempts' = Append(attempts,
       [pc |-> "reading", file |-> sourceImageFile, description |-> description])
  /\ loadingEffect(isLoading, TRUE, Len(attempts) + 1)
  /\ UNCHANGED mounted
  /\ lastEvent' = Event("generateNoImage", NULL, NoResponse)
  /\ UNCHANGED << description, sourceImageFile, sourceImagePreview, objectUrls,
                  urlsCreated, inFlight, adapterCalls >>

\* handleGenerate without a source image: the early return.
handleGenerateNoImage ==
  /\ sourceImageFile = NULL
  /\ error' = NoImageMessage
  /\ UNCHANGED mounted
  /\ lastEvent' = Event("generateNoImage", NULL, NoResponse)
  /\ UNCHANGED << description, sourceImageFile, sourceImagePreview, generatedImage,
                  isLoading, loadingMessage, intervalRef, timers, objectUrls,
                  urlsCreated, attempts, inFlight, adapterCalls >>

\* handleGenerateStart without setLoadingMessage(loadingMessages[0]).
handleGenerateStartKeepingMessage ==
  /\ sourceImageFile # NULL
  /\ Len(attempts) < MaxAttempts
  /\ isLoading' = TRUE
  /\ error' = NULL
  /\ generatedImage' = NULL
  /\ attempts' = Append(attempts,
       [pc |-> "reading", file |-> sourceImageFile, description |-> description])
  /\ loadingEffect(isLoading, TRUE, Len(attempts) + 1)
  /\ UNCHANGED mounted
  /\ lastEvent' = Event("generate", NULL, NoResponse)
  /\ UNCHANGED << description, sourceImageFile, sourceImagePreview, objectUrls,
                  urlsCreated, inFlight, adapterCalls, loadingMessage >>

\* handleGenerateStart without setError(null).
handleGenerateStartKeepingError ==
  /\ sourceImageFile # NULL
  /\ Len(attempts) < MaxAttempts
  /\ isLoading' = TRUE
  /\ generatedImage' = NULL
  /\ loadingMessage' = loadingMessages[1]
  /\ attempts' = Append(attempts,
       [pc |-> "reading", file |-> sourceImageFile, description |-> description])
  /\ loadingEffect(isLoading, TRUE, Len(attempts) + 1)
  /\ UNCHANGED mounted
  /\ lastEvent' = Event("generate", NULL, NoResponse)
  /\ UNCHANGED << description, sourceImageFile, sourceImagePreview, objectUrls,
                  urlsCreated, inFlight, adapterCalls, error >>

\* handleGenerate with a source image, up to its first await: the state is reset
\* and fileToBase64 starts reading the file; the invocation keeps the file and
\* the description of the render it was created in.
handleGenerateStart ==
  /\ sourceImageFile # NULL
  /\ Len(attempts) < MaxAttempts
  /\ isLoading' = TRUE
  /\ error' = NULL
  /\ generatedImage' = NULL
  /\ loadingMessage' = loadingMessages[1]
  /\ attempts' = Append(attempts,
       [pc |-> "reading", file |-> sourceImageFile, description |-> description])
  /\ loadingEffect(isLoading, TRUE, Len(attempts) + 1)
  /\ UNCHANGED mounted
  /\ lastEvent' = Event("generate", NULL, NoResponse)
  /\ UNCHANGED << description, sourceImageFile, sourceImagePreview, objectUrls,
                  urlsCreated, inFlight, adapterCalls >>

\* The user presses the generate button.
Generate == GenerateEnabled /\ handleGenerateStart

\* An invocation of handleGenerate that has returned: only how it ended is kept.
Returned(how) == [pc |-> how, file |-> NULL, description |-> ""]

\* handleGenerateCatch without the instanceof test.
handleGenerateCatchAnyMessage(thrown) == thrown.message

\* The catch block of handleGenerate: the message it stores for a thrown value.
handleGenerateCatch(thrown) ==
  IF thrown.isError THEN thrown.message ELSE UnexpectedErrorMessage

\* handleGenerateFinally missing: isLoading is never reset.
handleGenerateWithoutFinally == UNCHANGED << isLoading, intervalRef, timers >>

\* The finally block of handleGenerate, and the effect the re-render runs.
handleGenerateFinally ==
  /\ isLoading' = FALSE
  /\ loadingEffect(isLoading, FALSE, 0)

\* fileToBase64 resolves for invocation i: handleGenerate resumes and calls
\* generateHeadshot, which sends its one request and awaits the answer.
ReadResolved(i) ==
  /\ attempts[i].pc = "reading"
  /\ attempts' = [attempts EXCEPT ![i].pc = "calling"]
  /\ inFlight' = inFlight \cup
       { [ attempt |-> i,
           request |-> generateContentRequest(fileToBase64(attempts[i].file),
                         FileType(attempts[i].file), attempts[i].description) ] }
  /\ adapterCalls' = adapterCalls + 1
  /\ UNCHANGED mounted
  /\ lastEvent' = Event("readResolved", NULL, NoResponse)
  /\ UNCHANGED << description, sourceImageFile, sourceImagePreview, generatedImage,
                  isLoading, error, loadingMessage, intervalRef, timers, objectUrls,
                  urlsCreated >>

\* fileToBase64 rejects for invocation i with the reader's error event, which is
\* no Error: the catch and the finally of handleGenerate run.
ReadRejected(i) ==
  /\ mounted
  /\ attempts[i].pc = "reading"
  /\ attempts' = [attempts EXCEPT ![i] = Returned("failed")]
  /\ error' = handleGenerateCatch([isError |-> FALSE, message |-> "error"])
  /\ handleGenerateFinally
  /\ UNCHANGED mounted
  /\ lastEvent' = Event("readRejected", NULL, NoResponse)
  /\ UNCHANGED << description, sourceImageFile, sourceImagePreview, generatedImage,
                  loadingMessage, objectUrls, urlsCreated, inFlight, adapterCalls >>

\* CallSettled with a failed call sent again instead of reported.
CallSettledRetrying(i, response) ==
  LET r == generateHeadshot(response) IN
  /\ mounted
  /\ attempts[i].pc = "calling"
  /\ IF r.threw /\ adapterCalls <= MaxAttempts
       THEN /\ adapterCalls' = adapterCalls + 1
            /\ UNCHANGED << error, attempts, generatedImage, inFlight, isLoading,
                            intervalRef, timers >>
       ELSE /\ IF r.threw
                 THEN /\ error' = handleGenerateCatch(r.thrown)
                      /\ attempts' = [attempts EXCEPT ![i] = Returned("failed")]
                      /\ UNCHANGED generatedImage
                 ELSE /\ generatedImage' = r.value
                      /\ attempts' = [attempts EXCEPT ![i] = Returned("succeeded")]
                      /\ UNCHANGED error
            /\ inFlight' = { c \in inFlight : c.attempt # i }
            /\ handleGenerateFinally
            /\ UNCHANGED adapterCalls
  /\ UNCHANGED mounted
  /\ lastEvent' = Event("callSettled", NULL, response)
  /\ UNCHANGED << description, sourceImageFile, sourceImagePreview, loadingMessage,
                  objectUrls, urlsCreated >>

\* The external call of invocation i settles with response: generateHeadshot
\* returns or throws, and handleGenerate stores the image or the message.
CallSettled(i, response) ==
  LET r == generateHeadshot(response) IN
  /\ mounted
  /\ attempts[i].pc = "calling"
  /\ IF r.threw
       THEN /\ error' = handleGenerateCatch(r.thrown)
            /\ attempts' = [attempts EXCEPT ![i] = Returned("failed")]
            /\ UNCHANGED generatedImage
       ELSE /\ generatedImage' = r.value
            /\ attempts' = [attempts EXCEPT ![i] = Returned("succeeded")]
            /\ UNCHANGED error
  /\ inFlight' = { c \in inFlight : c.attempt # i }
  /\ handleGenerateFinally
  /\ UNCHANGED mounted
  /\ lastEvent' = Event("callSettled", NULL, response)
  /\ UNCHANGED << description, sourceImageFile, sourceImagePreview, loadingMessage,
                  objectUrls, urlsCreated, adapterCalls >>

\* A scheduled interval fires: setLoadingMessage(prev => the next message)
Tick ==
  /\ timers # {}
  /\ loadingMessage' = nextLoadingMessage(loadingMessage)
  /\ UNCHANGED mounted
  /\ lastEvent' = Event("tick", NULL, NoResponse)
  /\ UNCHANGED << description, sourceImageFile, sourceImagePreview, generatedImage,
                  isLoading, error, intervalRef, timers, objectUrls, urlsCreated,
                  attempts, inFlight, adapterCalls >>

\* handleDownload: a link to the generated image is clicked; no state is set.
handleDownload ==
  /\ Truthy(generatedImage)
  /\ UNCHANGED mounted
  /\ lastEvent' = Event("download", NULL, NoResponse)
  /\ UNCHANGED << description, sourceImageFile, sourceImagePreview, generatedImage,
                  isLoading, error, loadingMessage, intervalRef, timers, objectUrls,
                  urlsCreated, attempts, inFlight, adapterCalls >>

Download == DownloadShown /\ handleDownload

handleStartOver ==
  /\ description' = ""
  /\ generatedImage' = NULL
  /\ error' = NULL
  /\ isLoading' = FALSE
  /\ loadingEffect(isLoading, FALSE, 0)
  /\ clearSourceImage
  /\ UNCHANGED mounted
  /\ lastEvent' = Event("startOver", NULL, NoResponse)
  /\ UNCHANGED << loadingMessage, attempts, inFlight, adapterCalls >>

StartOver == StartOverShown /\ handleStartOver

\* ---------------------------------------------------------------- specifications
\* The promises of the pending invocations settle, one at a time.
FileRead == \E i \in 1..Len(attempts) : ReadResolved(i)

FileReadFailed == \E i \in 1..Len(attempts) : ReadRejected(i)

CallAnswered ==
  \E i \in 1..Len(attempts) : \E response \in Responses : CallSettled(i, response)

Settle == FileRead \/ FileReadFailed \/ CallAnswered

Next ==
  \/ SelectFile
  \/ ClearImage
  \/ EditDescription
  \/ Generate
  \/ FileRead
  \/ FileReadFailed
  \/ CallAnswered
  \/ Tick
  \/ Download
  \/ StartOver

\* The component as the user drives it.
Spec == Init /\ [][Next]_vars

\* The same, where every pending file read and external call eventually settles.
FairSpec == Spec /\ WF_vars(Settle)

\* The component with handleGenerate also invoked where the button is disabled
\* for lack of an image (the handler's own guard then decides).
NextHandler == Next \/ handleGenerateNoImage

SpecHandler == Init /\ [][NextHandler]_vars

\* ---------------------------------------------------------------- teardown
\* The cleanup the effect on isLoading returns: it clears the interval the ref
\* holds (the ref itself keeps its value).
loadingCleanup == IF intervalRef # 0 THEN timers \ {intervalRef} ELSE timers

\* The cleanup the effect on sourceImagePreview returns: it revokes the preview
\* of the render the effect ran in.
previewCleanup == 
  IF Truthy(sourceImagePreview) THEN objectUrls \ {sourceImagePreview} ELSE objectUrls

\* React unmounts the component: the cleanups of both effects run; the state is
\* set no more.
Unmount ==
  /\ mounted
  /\ mounted' = FALSE
  /\ timers' = loadingCleanup
  /\ objectUrls' = previewCleanup
  /\ lastEvent' = Event("unmount", NULL, NoResponse)
  /\ UNCHANGED << description, sourceImageFile, sourceImagePreview, generatedImage,
                  isLoading, error, loadingMessage, intervalRef, urlsCreated,
                  attempts, inFlight, adapterCalls >>

\* A promise of a pending invocation rejects or settles after the unmount:
\* handleGenerate runs to its end, and React drops the state updates.
ReadRejectedUnmounted(i) ==
  /\ ~mounted
  /\ attempts[i].pc = "reading"
  /\ attempts' = [attempts EXCEPT ![i] = Returned("failed")]
  /\ lastEvent' = Event("readRejected", NULL, NoResponse)
  /\ UNCHANGED << description, sourceImageFile, sourceImagePreview, generatedImage,
                  isLoading, error, loadingMessage, intervalRef, timers, objectUrls,
                  urlsCreated, inFlight, adapterCalls, mounted >>

CallSettledUnmounted(i, response) ==
  /\ ~mounted
  /\ attempts[i].pc = "calling"
  /\ attempts' = [attempts EXCEPT ![i] =
       Returned(IF generateHeadshot(response).threw THEN "failed" ELSE "succeeded")]
  /\ inFlight' = { c \in inFlight : c.attempt # i }
  /\ lastEvent' = Event("callSettled", NULL, response)
  /\ UNCHANGED << description, sourceImageFile, sourceImagePreview, generatedImage,
                  isLoading, error, loadingMessage, intervalRef, timers, objectUrls,
                  urlsCreated, adapterCalls, mounted >>

FileReadFailedUnmounted == \E i \in 1..Len(attempts) : ReadRejectedUnmounted(i)

CallAnsweredUnmounted ==
  \E i \in 1..Len(attempts) : \E response \in Responses : CallSettledUnmounted(i, response)

\* The component driven by the user until React tears it down.
NextTeardown == Next \/ Unmount \/ FileReadFailedUnmounted \/ CallAnsweredUnmounted

SpecTeardown == Init /\ [][NextTeardown]_vars

\* ---------------------------------------------------------------- phases
\* The phases of the session, read off the component's state.
Generating == isLoading
Succeeded == ~isLoading /\ Truthy(generatedImage)
Failed ==
  /\ ~isLoading
  /\ ~Truthy(generatedImage)
  /\ Truthy(error)
  /\ sourceImageFile # NULL
  /\ Len(attempts) > 0 /\ attempts[Len(attempts)].pc = "failed"
Idle == ~isLoading /\ sourceImageFile = NULL /\ ~Truthy(generatedImage)

ImageSelected ==
  /\ ~isLoading
  /\ sourceImageFile # NULL
  /\ ~Truthy(generatedImage)
  /\ ~Truthy(error)

\* Invocations of handleGenerate that have not returned yet.
Pending == { i \in 1..Len(attempts) : attempts[i].pc \in {"reading", "calling"} }

\* ---------------------------------------------------------------- claims

\* C1: at most one generateHeadshot call is in flight at any time, and at most
\* one invocation of handleGenerate is pending: a second one cannot start
\* before the previous one has resolved or rejected.
C1_AtMostOneCallInFlight ==
  /\ Cardinality(inFlight) <= 1
  /\ Cardinality(Pending) <= 1
  /\ (Pending # {} => isLoading)

\* A second attempt has its call in flight after the first attempt has ended.
C1_Witness ==
  /\ Len(attempts) = 2
  /\ attempts[1].pc \in {"succeeded", "failed"}
  /\ attempts[2].pc = "calling"
  /\ Cardinality(inFlight) = 1

\* C2: while the session is Generating no result is set: generatedImage and
\* error are both null, on a first attempt and on a retry after a failure.
C2_GeneratingHasNoResult ==
  Generating => generatedImage = NULL /\ error = NULL

\* A retry is running after a failed attempt.
C2_Witness ==
  /\ Generating
  /\ Len(attempts) = 2
  /\ attempts[1].pc = "failed"

\* C3: when the call returns parts of which one has inline image data, the
\* attempt ends in Succeeded with the data URI of the first such part in list
\* order, and no error is set.
C3_FirstImagePartStored ==
  (/\ lastEvent.type = "callSettled"
   /\ lastEvent.response.kind = "parts"
   /\ \E i \in 1..Len(lastEvent.response.parts) :
        "inlineData" \in DOMAIN lastEvent.response.parts[i])
  => /\ Succeeded
     /\ error = NULL
     /\ \E i \in 1..Len(lastEvent.response.parts) :
          LET part == lastEvent.response.parts[i] IN
          /\ "inlineData" \in DOMAIN part
          /\ \A j \in 1..(i - 1) : "inlineData" \notin DOMAIN lastEvent.response.parts[j]
          /\ generatedImage =
               "data:" \o part.inlineData.mimeType \o ";base64," \o part.inlineData.data

\* A call has answered with a text part followed by an image part.
C3_Witness ==
  /\ lastEvent.type = "callSettled"
  /\ lastEvent.response.parts = << TextPart, ImagePart("image/png", "AAAA") >>
  /\ generatedImage = "data:image/png;base64,AAAA"

\* C4: when the call succeeds and no returned part has image data, the attempt
\* ends in Failed and the error shown is the empty-response message verbatim.
C4_EmptyResponseVerbatim ==
  (/\ lastEvent.type = "callSettled"
   /\ lastEvent.response.kind = "parts"
   /\ \A i \in 1..Len(lastEvent.response.parts) :
        "inlineData" \notin DOMAIN lastEvent.response.parts[i])
  => /\ Failed
     /\ error = "No image was generated. The response from the API was empty."

\* C5: when the external call throws, the attempt ends in Failed with no image;
\* the error is the fixed prefix followed by the message of a standard error,
\* and the fixed generic message for any other thrown value.
C5_ThrownCallClassified ==
  (lastEvent.type = "callSettled" /\ lastEvent.response.kind = "throw")
  => /\ Failed
     /\ generatedImage = NULL
     /\ error = IF lastEvent.response.thrown.isError
                  THEN "Failed to generate headshot: " \o lastEvent.response.thrown.message
                  ELSE "An unknown error occurred while generating the headshot."

\* A call has rejected with a standard error.
C5_Witness ==
  /\ lastEvent.type = "callSettled"
  /\ lastEvent.response.kind = "throw"
  /\ lastEvent.response.thrown = [isError |-> TRUE, message |-> "quota exceeded"]
  /\ error = "Failed to generate headshot: quota exceeded"

\* C6: handleGenerate invoked with no source image starts no file read and no
\* external call, does not enter Generating, sets the error to the no-image
\* message and leaves source image, instruction text and generated image alone.
C6_GenerateWithoutImage ==
  [][(sourceImageFile = NULL /\ lastEvent'.type = "generateNoImage")
       => /\ error' = "Please upload an image to start."
          /\ ~isLoading'
          /\ attempts' = attempts
          /\ inFlight' = inFlight
          /\ adapterCalls' = adapterCalls
          /\ sourceImageFile' = sourceImageFile
          /\ sourceImagePreview' = sourceImagePreview
          /\ description' = description
          /\ generatedImage' = generatedImage]_vars

\* handleGenerate has just run without an image, after instructions were typed.
C6_Witness ==
  /\ lastEvent.type = "generateNoImage"
  /\ sourceImageFile = NULL
  /\ description = "Wear a black suit"
  /\ error = "Please upload an image to start."

\* C7: every attempt runs to completion: once Generating, with the file read
\* and the external call eventually settling, the session eventually leaves
\* Generating into Succeeded or Failed, and until then no step is a user action:
\* only the pending promises and the status timer act.
C7_AttemptRunsToCompletion ==
  /\ Generating ~> (Succeeded \/ Failed)
  /\ [][Generating =>
          lastEvent'.type \in {"readResolved", "readRejected", "callSettled", "tick"}]_vars
  /\ [][(Generating /\ ~Generating') => (Succeeded' \/ Failed')]_vars

\* An attempt has ended after its file read failed, another after its call settled.
C7_Witness ==
  /\ ~Generating
  /\ Len(attempts) = 2
  /\ attempts[1].pc = "failed"
  /\ lastEvent.type = "callSettled"
  /\ Succeeded

\* C8: the adapter is invoked at most once per generate action taken with an
\* image and never retried: the calls made never outnumber those actions, and
\* outside Generating (after Succeeded or Failed) no call and no invocation is
\* pending until the user generates again.
C8_OneCallPerGenerate ==
  /\ adapterCalls <= Len(attempts)
  /\ (~Generating => inFlight = {} /\ Pending = {})

\* An attempt has failed in its call; the one call it made is the only one.
C8_Witness ==
  /\ Failed
  /\ lastEvent.type = "callSettled"
  /\ Len(attempts) = 1
  /\ adapterCalls = 1

\* C9: start over taken in Succeeded returns the session to Idle: no source
\* image, no display handle, empty instructions, no generated image, no error,
\* not Generating.
C9_StartOverResets ==
  [][(Succeeded /\ lastEvent'.type = "startOver")
       => /\ sourceImageFile' = NULL
          /\ sourceImagePreview' = NULL
          /\ description' = ""
          /\ generatedImage' = NULL
          /\ error' = NULL
          /\ ~isLoading'
          /\ Idle']_vars

\* Start over has just been taken after a successful attempt.
C9_Witness ==
  /\ lastEvent.type = "startOver"
  /\ attempts[Len(attempts)].pc = "succeeded"
  /\ Idle
  /\ description = ""

C11_InvalidFileRejected ==
  [][(/\ Idle
      /\ lastEvent'.type = "select"
      /\ ~startsWith(FileType(lastEvent'.file), "image/"))
       => /\ Idle'
          /\ sourceImageFile' = NULL
          /\ sourceImagePreview' = NULL
          /\ objectUrls' = objectUrls
          /\ urlsCreated' = urlsCreated
          /\ description' = description
          /\ generatedImage' = generatedImage
          /\ error' = "Please upload a valid image file (PNG, JPG, WEBP)."]_vars

\* A text file has just been picked, after instructions were typed.
C11_Witness ==
  /\ lastEvent.type = "select"
  /\ lastEvent.file = "notes.txt"
  /\ Idle
  /\ description = "Wear a black suit"
  /\ error = "Please upload a valid image file (PNG, JPG, WEBP)."

\* C12: selecting a PNG, JPEG or WEBP file in Idle moves the session to
\* ImageSelected with exactly that file as the source image, a newly created
\* display handle for it, and the previous error message cleared.
C12_ValidFileSelected ==
  [][(/\ Idle
      /\ lastEvent'.type = "select"
      /\ FileType(lastEvent'.file) \in {"image/png", "image/jpeg", "image/webp"})
       => /\ ImageSelected'
          /\ sourceImageFile' = lastEvent'.file
          /\ Truthy(sourceImagePreview')
          /\ sourceImagePreview' \notin objectUrls
          /\ sourceImagePreview' \in objectUrls'
          /\ error' = NULL
          /\ description' = description]_vars

\* A WEBP file has just been picked, as the second selection of the session.
C12_Witness ==
  /\ lastEvent.type = "select"
  /\ lastEvent.file = "pic.webp"
  /\ sourceImageFile = "pic.webp"
  /\ FileType(sourceImageFile) = "image/webp"
  /\ urlsCreated = 2
  /\ sourceImagePreview = "blob:2"
  /\ error = NULL

\* C13: display handles are never leaked and never released early: after every
\* event, effect cleanups included, the object URLs created and not revoked are
\* exactly the current preview while a source image is selected in the mounted
\* component, and none otherwise (after clear, start over and teardown).
C13_HandlesMatchPreview ==
  objectUrls = IF mounted /\ sourceImageFile # NULL THEN {sourceImagePreview} ELSE {}

\* The component has been torn down while its second object URL was the preview.
C13_Witness ==
  /\ lastEvent.type = "unmount"
  /\ sourceImagePreview = "blob:2"
  /\ urlsCreated = 2
  /\ objectUrls = {}

\* C14: the status timer runs only while Generating: at most one interval is
\* scheduled, none is scheduled when the session is not Generating or the
\* component is torn down, and so a tick changes the message only in Generating.
C14_TimerOnlyWhileGenerating ==
  /\ [](Cardinality(timers) <= 1 /\ (timers # {} => mounted /\ isLoading))
  /\ [][lastEvent'.type = "tick" => mounted /\ isLoading /\ isLoading']_vars

\* The component has been torn down while Generating: the interval is cleared.
C14_Witness ==
  /\ lastEvent.type = "unmount"
  /\ isLoading
  /\ intervalRef # 0
  /\ timers = {}

\* C15, as claimed: right after an attempt ends and at the start of a new
\* attempt the status message is the first message of the list.
C15_MessageFirstAtEndAndStart ==
  lastEvent.type \in {"callSettled", "readRejected", "generate"}
    => loadingMessage = loadingMessages[1]

\* C15, amended: the status message is reset to the first message at the start
\* of every attempt, whatever ticks came before; when an attempt ends the
\* message keeps the value of the last tick, and nothing changes it outside
\* Generating.
C15_MessageResetAtStart ==
  /\ [](lastEvent.type = "generate" => loadingMessage = loadingMessages[1])
  /\ [][~Generating' => loadingMessage' = loadingMessage]_vars

\* An attempt has ended after two ticks: the third message is still stored.
C15_Witness ==
  /\ lastEvent.type = "callSettled"
  /\ ~Generating
  /\ loadingMessage = "Finding the perfect angle..."

\* C16: a generated image and an error message are never set together, after
\* any sequence of selections, clears, attempts, retries and start-overs, and
\* the start of an attempt removes the result of the previous one.
C16_ResultsExclusive ==
  /\ ~(Truthy(generatedImage) /\ Truthy(error))
  /\ (lastEvent.type = "generate" => ~Truthy(generatedImage) /\ ~Truthy(error))

\* A retry has succeeded after a failed attempt: only the image is set.
C16_Witness ==
  /\ Len(attempts) = 2
  /\ attempts[1].pc = "failed"
  /\ attempts[2].pc = "succeeded"
  /\ Truthy(generatedImage)
  /\ error = NULL

\* C17: when reading the file fails the attempt makes no external call, leaves
\* Generating into Failed with no generated image, and stores the generic
\* message for a rejection value that is no standard error.
C17_ReadFailureIsGeneric ==
  [][lastEvent'.type = "readRejected"
       => /\ adapterCalls' = adapterCalls
          /\ inFlight' = {}
          /\ Failed'
          /\ generatedImage' = NULL
          /\ error' = "An unexpected error occurred."]_vars

\* The file read of a first attempt has just failed: no call was ever made.
C17_Witness ==
  /\ lastEvent.type = "readRejected"
  /\ Failed
  /\ adapterCalls = 0
  /\ error = "An unexpected error occurred."

\* C18: while Generating no user action acts, so the source image and the
\* instruction text stay as they were when generate was invoked, and the image
\* and text of the request in flight are those the session holds, up to and
\* including the state in which the answer arrives.
C18_RequestMatchesSession ==
  /\ [][Generating =>
          /\ lastEvent'.type \in {"readResolved", "readRejected", "callSettled", "tick"}
          /\ sourceImageFile' = sourceImageFile
          /\ description' = description]_vars
  /\ [](\A c \in inFlight :
          /\ c.request.data = readAsDataURL(sourceImageFile)[2]
          /\ c.request.mimeType = FileType(sourceImageFile)
          /\ c.request.prompt = fullPrompt(description))
  /\ [][lastEvent'.type = "callSettled" =>
          \A c \in inFlight \ inFlight' :
            /\ c.request.data = readAsDataURL(sourceImageFile')[2]
            /\ c.request.mimeType = FileType(sourceImageFile')
            /\ c.request.prompt = fullPrompt(description')]_vars

\* The answer to a request with instructions has arrived.
C18_Witness ==
  /\ lastEvent.type = "callSettled"
  /\ ~Generating
  /\ sourceImageFile = "selfie.jpg"
  /\ description = "Wear a black suit"

\* C19: the remove action removes only the source image and its display
\* handle: instruction text, generated image and error message are unchanged,
\* so a clear after a failed attempt ends in Idle with the error still set.
C19_ClearRemovesOnlyImage ==
  [][lastEvent'.type = "clear"
       => /\ sourceImageFile' = NULL
          /\ sourceImagePreview' = NULL
          /\ sourceImagePreview \notin objectUrls'
          /\ description' = description
          /\ generatedImage' = generatedImage
          /\ error' = error
          /\ Idle']_vars

\* The image has been removed after a failed file read: its message is still set.
C19_Witness ==
  /\ lastEvent.type = "clear"
  /\ Idle
  /\ error = "An unexpected error occurred."
  /\ sourceImagePreview = NULL
  /\ objectUrls = {}

====
